---- MODULE Spec2Model ----
(***************************************************************************)
(* Level set trees of DeBaCl (debacl/level_set_tree.py).                   *)
(*                                                                         *)
(* The model follows construct_tree_from_graph threshold by threshold and  *)
(* live component by live component, and then the operations of            *)
(* LevelSetTree on the tree it returns: prune / _merge_by_size,            *)
(* make_subtree, and get_cluster_labels(method='k-level').                 *)
(*                                                                         *)
(* Python objects are modelled by a heap: a LevelSetTree's `nodes` dict    *)
(* maps a node id to a reference, and `heap` maps a reference to the       *)
(* ConnectedComponent record it holds.  Two trees alias a node when their  *)
(* dicts hold the same reference.                                          *)
(*                                                                         *)
(* Density values and levels are small naturals.  A mass is the fraction   *)
(* (number of points)/n; the model keeps its numerator, n being fixed.     *)
(***************************************************************************)
EXTENDS Integers, Sequences, FiniteSets, TLC

\* ------------------------------------------------------------------ bounds

\* number of data points: len(adjacency_list) = len(density)
NPoints == 7
\* density values are drawn from 0..MaxDensity
MaxDensity == 3
\* pruning thresholds are drawn from 0..MaxTau
MaxTau == 3
\* the k of the k-level labelling is drawn from 1..MaxK
MaxK == 3

Points == 0..(NPoints - 1)

\* Python's None.  Python 2 orders None below every number, which max() in
\* _merge_by_size relies on; ids, levels and masses are all >= 0.
None == -1

\* ------------------------------------------------------------------ inputs

Max(S) == CHOOSE x \in S : \A y \in S : y <= x
Min(S) == CHOOSE x \in S : \A y \in S : x <= y

RECURSIVE SortedSeq(_)
SortedSeq(S) == IF S = {} THEN <<>> ELSE <<Min(S)>> \o SortedSeq(S \ {Min(S)})

\* The undirected edges an input graph may have: a tree in which point 0
\* joins point 2 to point 1, and point 1 carries two arms (3, 5, ...) and
\* (4, 6, ...), with one more edge that closes the cycle 1-3-4.
BaseEdges ==
    {{p, IF p <= 2 THEN 0 ELSE IF p <= 4 THEN 1 ELSE p - 2} : p \in Points \ {0}}
        \cup {{3, 4} \cap Points}

\* An adjacency list: the neighbours of each point.
AdjacencyOf(E) == [p \in Points |-> {q \in Points \ {p} : {p, q} \in E}]

AdjacencyLists == {AdjacencyOf(E) : E \in SUBSET BaseEdges}

\* The points are numbered by density rank, and a density is the rank of its
\* value among the positive values (0: a point of density zero): it does not
\* decrease with the index and skips no value.  t[v] is the first point
\* whose density is at least v.
Densities ==
    {[p \in Points |-> Cardinality({v \in 1..MaxDensity : t[v] <= p})] :
        t \in {u \in [1..MaxDensity -> 0..NPoints] :
                  \A v \in 2..MaxDensity :
                      u[v - 1] < u[v] \/ u[v] = NPoints}}

\* The grids the level grid generator (utils.define_density_grid) may return
\* for a density: strictly ascending, ending at the maximum of the density,
\* every density value above zero being a level.
LevelGrids(d) ==
    LET vals == {d[p] : p \in DOMAIN d}
    IN  {SortedSeq({v \in vals : v > 0} \cup {Max(vals)})}

\* ------------------------------------------------------------------- state

VARIABLES
    adjacency_list,      \* input: the neighbours of each point
    density,             \* input: the density estimate of each point
    levels,              \* the level grid (ascending sequence)
    G,                   \* the neighbor graph built from adjacency_list
    heap,                \* reference -> ConnectedComponent object
    trees,               \* reference -> LevelSetTree object:
                         \*   nodes: id -> node reference, subgraphs: id -> vertices
    T,                   \* reference of the tree under construction, then of the
                         \*   tree construct_tree_from_graph returns
    i,                   \* index of the level loop (0-based, as enumerate)
    previous_level,
    bg,                  \* background set of the current level
    current_mass,        \* numerator of the mass of the current level
    deactivate_keys,     \* keys to drop from T.subgraphs at the end of the level
    activate_subgraphs,  \* subgraphs to add to T.subgraphs at the end of the level
    todo,                \* keys of T.subgraphs the inner loop has not visited yet
    prune_threshold,     \* argument of construct_tree_from_graph (None: no pruning)
    call,                \* the last call made on the returned tree, with its result
    pc

vars == <<adjacency_list, density, levels, G, heap, trees, T, i, previous_level,
          bg, current_mass, deactivate_keys, activate_subgraphs, todo,
          prune_threshold, call, pc>>

inputs == <<adjacency_list, density, levels, G>>

\* ------------------------------------------------------------ data model

ConnectedComponent(idnum, parent, children, start_level, end_level, start_mass, end_mass, members) ==
    [idnum |-> idnum, parent |-> parent, children |-> children,
     start_level |-> start_level, end_level |-> end_level,
     start_mass |-> start_mass, end_mass |-> end_mass, members |-> members]

\* LevelSetTree.__init__ leaves nodes and subgraphs empty.
LevelSetTree == [nodes |-> <<>>, subgraphs |-> <<>>]

\* A dict without the keys in S (del d[k] for each k in S).
Without(f, S) == [x \in (DOMAIN f) \ S |-> f[x]]

\* d.update(g).
Update(f, g) ==
    [x \in (DOMAIN f) \cup (DOMAIN g) |-> IF x \in DOMAIN g THEN g[x] ELSE f[x]]

\* The elements of a list.
Range(s) == {s[j] : j \in 1..Len(s)}

\* No call made yet on the returned tree.
NoCall == [op |-> "none", arg |-> None, result |-> None, err |-> "", out |-> <<>>]

\* ------------------------------------------------------------- the graph

\* networkx.from_dict_of_lists: the undirected graph of the adjacency list,
\* as the set of neighbours of each vertex.
from_dict_of_lists(adj) ==
    [p \in Points |-> adj[p] \cup {q \in Points : p \in adj[q]}]

\* Reach that stops at the neighbours of F.
Reach_one_step(g, F, V) == F \cup ((UNION {g[f] : f \in F}) \cap V)

\* The vertices of V reached from the vertices F in the subgraph induced on V.
RECURSIVE Reach(_, _, _)
Reach(g, F, V) ==
    LET N == ((UNION {g[f] : f \in F}) \cap V) \ F
    IN  IF N = {} THEN F ELSE Reach(g, F \cup N, V)

\* networkx.connected_components of the subgraph induced on V, as a list;
\* components come in the order of their smallest vertex.
RECURSIVE connected_components(_, _)
connected_components(g, V) ==
    IF V = {} THEN <<>>
    ELSE LET c == Reach(g, {Min(V)}, V)
         IN  <<c>> \o connected_components(g, V \ c)

\* is_connected that takes every subgraph for connected.
is_connected_always(g, V) == TRUE

\* networkx.is_connected of the subgraph induced on a non-empty V.
is_connected(g, V) == Reach(g, {Min(V)}, V) = V

\* ------------------------------------------------- construction: the roots

Init ==
    /\ adjacency_list \in AdjacencyLists
    /\ density \in Densities
    /\ levels \in LevelGrids(density)
    /\ G = from_dict_of_lists(adjacency_list)
    /\ LET cc0 == connected_components(G, Points)
       IN  /\ heap = [j \in 1..Len(cc0) |->
                        ConnectedComponent(j - 1, None, <<>>, 0, None, 0, None,
                                           cc0[j])]
           /\ trees = << [nodes     |-> [k \in 0..(Len(cc0) - 1) |-> k + 1],
                          subgraphs |-> [k \in 0..(Len(cc0) - 1) |-> cc0[k + 1]]] >>
    /\ T = 1
    /\ i = 0
    /\ previous_level = 0
    /\ bg = {}
    /\ current_mass = 0
    /\ deactivate_keys = <<>>
    /\ activate_subgraphs = <<>>
    /\ todo = {}
    /\ prune_threshold = None
    /\ call = NoCall
    /\ pc = "level"

\* ---------------------------------------------- construction: the sweep

\* SumSizes that counts one live subgraph only.
SumSizes_one(f, K) == IF K = {} THEN 0 ELSE Cardinality(f[Min(K)])

RECURSIVE SumSizes(_, _)
SumSizes(f, K) ==
    IF K = {} THEN 0
    ELSE LET k == CHOOSE x \in K : TRUE
         IN  Cardinality(f[k]) + SumSizes(f, K \ {k})

\* The head of one iteration of `for i, level in enumerate(levels)`.
LevelBegin ==
    /\ pc = "level"
    /\ i < Len(levels)
    /\ LET level == levels[i + 1]
           bgset == {p \in DOMAIN density :
                        density[p] > previous_level /\ density[p] <= level}
           old_vcount == SumSizes(trees[T].subgraphs, DOMAIN trees[T].subgraphs)
       IN  /\ bg' = bgset
           /\ previous_level' = level
           /\ current_mass' = NPoints - (old_vcount - Cardinality(bgset))
    /\ deactivate_keys' = <<>>
    /\ activate_subgraphs' = <<>>
    /\ todo' = DOMAIN trees[T].subgraphs
    /\ pc' = "nodes"
    /\ UNCHANGED <<inputs, heap, trees, T, i, prune_threshold, call>>

\* new_key that gives the largest id in use.
new_key_reuse(nodes) == Max(DOMAIN nodes)

\* The id of a new child: max(T.nodes.keys()) + 1.
new_key(nodes) == Max(DOMAIN nodes) + 1

\* Close with the end mass left unset.
Close_without_mass(node, level, mass) ==
    [node EXCEPT !.end_level = level]

\* A node closed at `level`: its end_level and end_mass are set.
Close(node, level, mass) ==
    [node EXCEPT !.end_level = level, !.end_mass = mass]

\* split_components taken on the whole graph G instead of H.
split_components_of_G(g, H) == connected_components(g, Points)

\* The components a disconnected subgraph H splits into.
split_components(g, H) == connected_components(g, H)

\* `for c in cc`: a new node and a new subgraph for each child component of
\* the node k.  s holds the heap, T.nodes and activate_subgraphs.
RECURSIVE add_children(_, _, _, _, _)
add_children(s, k, cc, level, mass) ==
    IF cc = <<>> THEN s
    ELSE LET key == new_key(s.nodes)
             h1  == [s.heap EXCEPT ![s.nodes[k]].children = Append(@, key)]
             kid == ConnectedComponent(key, k, <<>>, level, None, mass, None,
                                       Head(cc))
         IN  add_children([heap  |-> Append(h1, kid),
                           nodes |-> Update(s.nodes, key :> (Len(h1) + 1)),
                           act   |-> Update(s.act, key :> Head(cc))],
                          k, Tail(cc), level, mass)

\* One iteration of `for (k, H) in T.subgraphs.iteritems()`.
ProcessNode(k) ==
    /\ pc = "nodes"
    /\ k \in todo
    /\ todo' = todo \ {k}
    /\ LET level == previous_level
           H     == trees[T].subgraphs[k] \ bg
           r     == trees[T].nodes[k]
           subs  == [trees[T].subgraphs EXCEPT ![k] = H]
       IN  IF H = {}
           THEN /\ heap' = [heap EXCEPT ![r] = Close(@, level, current_mass)]
                /\ trees' = [trees EXCEPT ![T].subgraphs = subs]
                /\ deactivate_keys' = Append(deactivate_keys, k)
                /\ UNCHANGED activate_subgraphs
           ELSE IF ~ is_connected(G, H)
           THEN LET s == add_children(
                           [heap  |-> [heap EXCEPT
                                         ![r] = Close(@, level, current_mass)],
                            nodes |-> trees[T].nodes,
                            act   |-> activate_subgraphs],
                           k, split_components(G, H), level, current_mass)
                IN  /\ heap' = s.heap
                    /\ trees' = [trees EXCEPT ![T].subgraphs = subs,
                                              ![T].nodes = s.nodes]
                    /\ deactivate_keys' = Append(deactivate_keys, k)
                    /\ activate_subgraphs' = s.act
           ELSE /\ trees' = [trees EXCEPT ![T].subgraphs = subs]
                /\ UNCHANGED <<heap, deactivate_keys, activate_subgraphs>>
    /\ UNCHANGED <<inputs, T, i, previous_level, bg, current_mass,
                   prune_threshold, call, pc>>

\* LevelEnd that leaves the deactivated keys in T.subgraphs.
LevelEnd_without_deactivation ==
    /\ pc = "nodes"
    /\ todo = {}
    /\ trees' = [trees EXCEPT ![T].subgraphs = Update(@, activate_subgraphs)]
    /\ i' = i + 1
    /\ pc' = "level"
    /\ UNCHANGED <<inputs, heap, T, previous_level, bg, current_mass,
                   deactivate_keys, activate_subgraphs, todo,
                   prune_threshold, call>>

\* LevelEnd that does not wait for the inner loop to finish.
LevelEnd_early ==
    /\ pc = "nodes"
    /\ trees' = [trees EXCEPT ![T].subgraphs =
                    Update(Without(@, Range(deactivate_keys)), activate_subgraphs)]
    /\ i' = i + 1
    /\ pc' = "level"
    /\ UNCHANGED <<inputs, heap, T, previous_level, bg, current_mass,
                   deactivate_keys, activate_subgraphs, todo,
                   prune_threshold, call>>

\* The tail of one iteration of the level loop: "update active components".
LevelEnd ==
    /\ pc = "nodes"
    /\ todo = {}
    /\ trees' = [trees EXCEPT ![T].subgraphs =
                    Update(Without(@, Range(deactivate_keys)), activate_subgraphs)]
    /\ i' = i + 1
    /\ pc' = "level"
    /\ UNCHANGED <<inputs, heap, T, previous_level, bg, current_mass,
                   deactivate_keys, activate_subgraphs, todo,
                   prune_threshold, call>>

\* ------------------------------------------------------------ make_subtree

\* The `while len(queue) > 0` loop of make_subtree: each branch popped from
\* the end of the queue is entered in the new dict with the reference the
\* source dict holds for it.
RECURSIVE subtree_walk(_, _, _, _)
subtree_walk(h, src, queue, acc) ==
    IF queue = <<>> THEN [nodes |-> acc, err |-> ""]
    ELSE LET branch_ix == queue[Len(queue)]
             rest      == SubSeq(queue, 1, Len(queue) - 1)
         IN  IF branch_ix \notin DOMAIN src
             THEN [nodes |-> acc, err |-> "KeyError"]
             ELSE subtree_walk(h, src, rest \o h[src[branch_ix]].children,
                               Update(acc, branch_ix :> src[branch_ix]))

\* LevelSetTree.make_subtree(ix) on the tree object `self`, in the object
\* state st = [heap, trees].  The root is deep-copied into a new object and
\* its parent cleared.
make_subtree(st, self, ix) ==
    LET src == st.trees[self].nodes
    IN  IF ix \notin DOMAIN src
        THEN [heap |-> st.heap, trees |-> st.trees, result |-> None,
              err |-> "KeyError"]
        ELSE LET root == [st.heap[src[ix]] EXCEPT !.parent = None]
                 h1   == Append(st.heap, root)
                 w    == subtree_walk(st.heap, src, st.heap[src[ix]].children,
                                      ix :> Len(h1))
             IN  [heap   |-> h1,
                  trees  |-> Append(st.trees,
                                    [LevelSetTree EXCEPT !.nodes = w.nodes]),
                  result |-> IF w.err = "" THEN Len(st.trees) + 1 ELSE None,
                  err    |-> w.err]

\* ---------------------------------------------------------- _merge_by_size

\* deepcopy replaced by a plain reference to the tree (tree = self).
deepcopy_alias(st, self) ==
    [heap |-> st.heap, trees |-> st.trees, result |-> self]

\* copy.deepcopy(self): a new tree object whose dict holds a new copy of
\* every node object.
deepcopy(st, self) ==
    LET src   == st.trees[self].nodes
        order == SortedSeq(DOMAIN src)
        pos   == [x \in DOMAIN src |-> Cardinality({y \in DOMAIN src : y <= x})]
    IN  [heap   |-> st.heap \o [j \in 1..Len(order) |-> st.heap[src[order[j]]]],
         trees  |-> Append(st.trees,
                           [st.trees[self] EXCEPT
                              !.nodes = [x \in DOMAIN src |-> Len(st.heap) + pos[x]]]),
         result |-> Len(st.trees) + 1]

\* remove_roots that deletes the small roots and keeps what is below them.
remove_roots_only(h, nodes, roots) ==
    [nodes |-> Without(nodes, Range(roots)), err |-> ""]

\* "remove small root branches": the ids of make_subtree(root) are deleted
\* for each small root in turn.  The temporary subtree is dropped at once,
\* so only its ids are kept here.
RECURSIVE remove_roots(_, _, _)
remove_roots(h, nodes, roots) ==
    IF roots = <<>> THEN [nodes |-> nodes, err |-> ""]
    ELSE LET sub == make_subtree(
                        [heap |-> h,
                         trees |-> << [LevelSetTree EXCEPT !.nodes = nodes] >>],
                        1, Head(roots))
         IN  IF sub.err # "" THEN [nodes |-> nodes, err |-> sub.err]
             ELSE remove_roots(h,
                               Without(nodes, DOMAIN sub.trees[sub.result].nodes),
                               Tail(roots))

\* The roots `_merge_by_size` removes.
small_roots(h, nodes, threshold) ==
    {k \in DOMAIN nodes :
        /\ h[nodes[k]].parent = None
        /\ Cardinality(h[nodes[k]].members) <= threshold}

\* bigkids with the comparison turned around.
bigkids_below(h, nodes, parent, threshold) ==
    {k \in Range(parent.children) :
        Cardinality(h[nodes[k]].members) < threshold}

\* The children of `parent` that count as big.
bigkids(h, nodes, parent, threshold) ==
    {k \in Range(parent.children) :
        Cardinality(h[nodes[k]].members) >= threshold}

\* collapse that forgets `parent.children = []`.
collapse_keeping_children(parent, end_level, end_mass) ==
    [parent EXCEPT !.end_level = end_level, !.end_mass = end_mass]

\* n_bigkid == 0: the parent takes the largest end level and end mass of
\* its children and loses them.
collapse(parent, end_level, end_mass) ==
    [parent EXCEPT !.end_level = end_level, !.end_mass = end_mass,
                   !.children = <<>>]

\* One iteration of `for ix_parent in parents` ("main pruning").
merge_step(h, nodes, ix_parent, threshold) ==
    IF ix_parent \notin DOMAIN nodes
    THEN [heap |-> h, nodes |-> nodes, err |-> "KeyError"]
    ELSE
    LET pref   == nodes[ix_parent]
        parent == h[pref]
        kids   == Range(parent.children)
    IN  IF \E k \in kids : k \notin DOMAIN nodes
        THEN [heap |-> h, nodes |-> nodes, err |-> "KeyError"]
        ELSE
        LET big      == bigkids(h, nodes, parent, threshold)
            n_bigkid == Cardinality(big)
        IN  IF n_bigkid = 0
            THEN IF kids = {}
                 THEN [heap |-> h, nodes |-> nodes, err |-> "ValueError"]
                 ELSE [heap |-> [h EXCEPT ![pref] = collapse(@,
                              Max({h[nodes[k]].end_level : k \in kids}),
                              Max({h[nodes[k]].end_mass : k \in kids}))],
                       nodes |-> Without(nodes, kids),
                       err |-> ""]
            ELSE IF n_bigkid = 1
            THEN LET ix_bigkid == CHOOSE k \in big : TRUE
                     bigkid    == h[nodes[ix_bigkid]]
                     grandkids == Range(bigkid.children)
                 IN  IF \E c \in grandkids : c \notin DOMAIN nodes
                     THEN [heap |-> h, nodes |-> nodes, err |-> "KeyError"]
                     ELSE
                     LET h1 == [h EXCEPT ![pref].end_level = bigkid.end_level,
                                         ![pref].end_mass = bigkid.end_mass]
                         h2 == [r \in DOMAIN h1 |->
                                  IF r \in {nodes[c] : c \in grandkids}
                                  THEN [h1[r] EXCEPT !.parent = ix_parent]
                                  ELSE h1[r]]
                         h3 == [h2 EXCEPT ![pref].children = bigkid.children]
                     IN  [heap |-> h3, nodes |-> Without(nodes, kids),
                          err |-> ""]
            ELSE [heap |-> h, nodes |-> nodes, err |-> ""]

RECURSIVE merge_loop(_, _, _, _)
merge_loop(h, nodes, parents, threshold) ==
    IF parents = <<>> THEN [heap |-> h, nodes |-> nodes, err |-> ""]
    ELSE LET s == merge_step(h, nodes, Head(parents), threshold)
         IN  IF s.err # "" THEN s
             ELSE merge_loop(s.heap, s.nodes, Tail(parents), threshold)

\* A list in reverse order.
Reverse(s) == [j \in 1..Len(s) |-> s[Len(s) + 1 - j]]

\* parents_order without the reversal: ascending ids.
parents_order_ascending(h, nodes) ==
    SortedSeq({k \in DOMAIN nodes : Len(h[nodes[k]].children) >= 1})

\* The order in which "main pruning" visits the nodes that have children:
\* _np.sort(parents)[::-1].
parents_order(h, nodes) ==
    Reverse(SortedSeq({k \in DOMAIN nodes : Len(h[nodes[k]].children) >= 1}))

\* LevelSetTree._merge_by_size(threshold) on the tree object `self`.
merge_by_size(st, self, threshold) ==
    LET c     == deepcopy(st, self)
        tree  == c.result
        n0    == c.trees[tree].nodes
        rr    == remove_roots(c.heap, n0,
                              SortedSeq(small_roots(c.heap, n0, threshold)))
        m     == IF rr.err # "" THEN [heap |-> c.heap, nodes |-> rr.nodes,
                                      err |-> rr.err]
                 ELSE merge_loop(c.heap, rr.nodes,
                                 parents_order(c.heap, rr.nodes), threshold)
    IN  [heap   |-> m.heap,
         trees  |-> [c.trees EXCEPT ![tree].nodes = m.nodes],
         result |-> IF m.err = "" THEN tree ELSE None,
         err    |-> m.err]

\* LevelSetTree.prune(threshold=threshold), method 'size_merge'.
prune(st, self, threshold) == merge_by_size(st, self, threshold)

\* ------------------------------------------ construction: the return value

PruneThresholds == {None} \cup (0..MaxTau)

\* "Prune the tree" and `return T`, once the level loop is over.
Return(pt) ==
    /\ pc = "level"
    /\ i = Len(levels)
    /\ prune_threshold' = pt
    /\ IF pt # None
       THEN LET r == prune([heap |-> heap, trees |-> trees], T, pt)
            IN  /\ heap' = r.heap
                /\ trees' = r.trees
                /\ T' = r.result
                /\ pc' = IF r.err = "" THEN "returned" ELSE "raised"
       ELSE /\ UNCHANGED <<heap, trees, T>>
            /\ pc' = "returned"
    /\ UNCHANGED <<inputs, i, previous_level, bg, current_mass,
                   deactivate_keys, activate_subgraphs, todo, call>>

\* ----------------------------------------------------------- k-level labels

\* The methods class LevelSetTree defines.
Methods ==
    {"__init__", "__str__", "prune", "save", "plot", "get_cluster_labels",
     "make_subtree", "_merge_by_size", "_leaf_cluster", "_first_K_cluster",
     "_upper_set_cluster", "_first_K_level_cluster", "_collapse_leaves",
     "find_K_cut", "_construct_branch_map", "_construct_mass_map",
     "_mass_to_level"}

\* The attributes LevelSetTree.__init__ sets on the object.
Attributes == {"density", "levels", "num_levels", "nodes", "subgraphs"}

\* active_at with the interval closed at its end.
active_at_closed(h, nodes, c) ==
    {e \in DOMAIN nodes :
        h[nodes[e]].start_level <= c /\ h[nodes[e]].end_level >= c}

\* The nodes whose interval [start_level, end_level) holds c.
active_at(h, nodes, c) ==
    {e \in DOMAIN nodes :
        h[nodes[e]].start_level <= c /\ h[nodes[e]].end_level > c}

\* LevelSetTree.find_K_cut(k).
find_K_cut(h, nodes, k) ==
    LET starts == {h[nodes[e]].start_level : e \in DOMAIN nodes}
        ends   == {h[nodes[e]].end_level : e \in DOMAIN nodes}
        crits  == starts \cup ends
        nclust == [c \in crits |-> Cardinality(active_at(h, nodes, c))]
        values == {nclust[c] : c \in crits}
    IN  IF crits = {} THEN [cut |-> None, err |-> "ValueError"]
        ELSE LET width == Max(values)
             IN  IF k \in values
                 THEN [cut |-> Min({c \in crits : nclust[c] = k}), err |-> ""]
                 ELSE IF width < k
                 THEN [cut |-> Min({c \in crits : nclust[c] = width}),
                       err |-> ""]
                 ELSE LET ktemp == Min({v \in values : v > k})
                      IN  [cut |-> Min({c \in crits : nclust[c] = ktemp}),
                           err |-> ""]

\* The rows of `labels` for a list of cluster nodes: every member of the
\* i-th node with the label i.
RECURSIVE label_rows(_, _, _, _)
label_rows(h, nodes, cl, j) ==
    IF j > Len(cl) THEN <<>>
    ELSE LET pts == SortedSeq(h[nodes[cl[j]]].members)
         IN  [x \in 1..Len(pts) |-> <<pts[x], j - 1>>]
             \o label_rows(h, nodes, cl, j + 1)

\* LevelSetTree._first_K_level_cluster(k); it looks up the attribute
\* `findKCut` of the tree.
first_K_level_cluster(h, nodes, k) ==
    IF "findKCut" \notin Methods \cup Attributes
    THEN [labels |-> <<>>, nodes |-> <<>>, err |-> "AttributeError"]
    ELSE LET f == find_K_cut(h, nodes, k)
         IN  IF f.err # ""
             THEN [labels |-> <<>>, nodes |-> <<>>, err |-> f.err]
             ELSE LET cl == SortedSeq(active_at(h, nodes, f.cut))
                  IN  [labels |-> label_rows(h, nodes, cl, 1), nodes |-> cl,
                       err |-> ""]

\* ------------------------------------------------ the other label policies

\* LevelSetTree._leaf_cluster(): every node without children is a cluster.
leaf_cluster(h, nodes) ==
    LET leaves == SortedSeq({k \in DOMAIN nodes : h[nodes[k]].children = <<>>})
    IN  [labels |-> label_rows(h, nodes, leaves, 1), nodes |-> leaves, err |-> ""]

\* numpy.argsort of a short list: the indices in ascending order of their
\* values, equal values in the order of their indices.
RECURSIVE argsort_from(_, _)
argsort_from(s, I) ==
    IF I = {} THEN <<>>
    ELSE LET j == CHOOSE x \in I :
                     \A y \in I : s[x] < s[y] \/ (s[x] = s[y] /\ x <= y)
         IN  <<j>> \o argsort_from(s, I \ {j})

argsort(s) == argsort_from(s, DOMAIN s)

\* The length of the Python slice a[:m] of a list of n elements.
slice_len(n, m) ==
    IF m >= 0 THEN (IF m < n THEN m ELSE n)
    ELSE (IF n + m > 0 THEN n + m ELSE 0)

\* extend_children that adds no children to the roots.
extend_children_none(h, nodes, star_parents, children) == children

\* `for u in star_parents: children += self.nodes[u].children`.
RECURSIVE extend_children(_, _, _, _)
extend_children(h, nodes, star_parents, children) ==
    IF star_parents = <<>> THEN children
    ELSE extend_children(h, nodes, Tail(star_parents),
                         children \o h[nodes[Head(star_parents)]].children)

\* LevelSetTree._first_K_cluster(k).
first_K_cluster(h, nodes, k) ==
    LET parents == SortedSeq({u \in DOMAIN nodes : Len(h[nodes[u]].children) > 0})
        roots   == SortedSeq({u \in DOMAIN nodes : h[nodes[u]].parent = None})
        splits  == [j \in 1..Len(parents) |-> h[nodes[parents[j]]].end_level]
        order   == argsort(splits)
        taken   == slice_len(Len(parents), k - Len(roots))
        star_parents == [j \in 1..taken |-> parents[order[j]]]
        children == extend_children(h, nodes, star_parents, roots)
        Frontier(x) == \A c \in Range(h[nodes[x]].children) : c \notin Range(children)
    IN  IF \E x \in Range(children) : x \notin DOMAIN nodes
        THEN [labels |-> <<>>, nodes |-> <<>>, err |-> "KeyError"]
        ELSE LET cl == SelectSeq(children, Frontier)
             IN  [labels |-> label_rows(h, nodes, cl, 1), nodes |-> cl, err |-> ""]

\* The attributes of the tree object `t`, as LevelSetTree.__init__ and
\* construct_tree_from_graph set them: T = LevelSetTree(density, levels),
\* then T.nodes and T.subgraphs are filled.  copy.deepcopy keeps them.
self_of(t) ==
    [density |-> density, levels |-> levels, num_levels |-> 0,
     nodes |-> trees[t].nodes, subgraphs |-> trees[t].subgraphs]

\* The points of the background sets of the levels `upper_levels`, in order.
RECURSIVE upper_points(_, _)
upper_points(bg_sets, upper_levels) ==
    IF upper_levels = <<>> THEN <<>>
    ELSE bg_sets[Head(upper_levels)] \o upper_points(bg_sets, Tail(upper_levels))

\* The rows of `labels` in _upper_set_cluster: for the i-th node, the points
\* of upper_pts that are members of it.
RECURSIVE upper_rows(_, _, _, _, _)
upper_rows(h, nodes, cl, upper_pts, j) ==
    IF j > Len(cl) THEN <<>>
    ELSE LET In(p) == p \in h[nodes[cl[j]]].members
             pts == SelectSeq(upper_pts, In)
         IN  [x \in 1..Len(pts) |-> <<pts[x], j - 1>>]
             \o upper_rows(h, nodes, cl, upper_pts, j + 1)

\* LevelSetTree._upper_set_cluster(threshold, scale) on the object `self`.
\* A mass threshold is given as its numerator over n.  An attribute the
\* object does not have raises AttributeError when it is read; the list
\* comprehension of upper_pts reads self.bg_sets once per upper level.
upper_set_cluster(self, h, threshold, scale) ==
    LET AttributeError == [labels |-> <<>>, nodes |-> <<>>, err |-> "AttributeError"]
    IN  IF scale = "alpha"
        THEN IF "bg_sets" \notin DOMAIN self \/ "n" \notin DOMAIN self
             THEN AttributeError
             ELSE LET alphas == [j \in 1..Len(self.bg_sets) |->
                                    Len(upper_points(self.bg_sets,
                                                     [x \in 1..j |-> x]))]
                      upper_levels == SortedSeq({j \in DOMAIN alphas :
                                                    alphas[j] > threshold})
                      cl == SortedSeq({k \in DOMAIN self.nodes :
                                /\ h[self.nodes[k]].start_mass <= threshold
                                /\ h[self.nodes[k]].end_mass > threshold})
                  IN  [labels |-> upper_rows(h, self.nodes, cl,
                                     upper_points(self.bg_sets, upper_levels), 1),
                       nodes |-> cl, err |-> ""]
        ELSE LET upper_levels == SortedSeq({j \in 1..Len(self.levels) :
                                               self.levels[j] > threshold})
                 cl == SortedSeq({k \in DOMAIN self.nodes :
                           /\ h[self.nodes[k]].start_level <= threshold
                           /\ h[self.nodes[k]].end_level > threshold})
             IN  IF upper_levels # <<>> /\ "bg_sets" \notin DOMAIN self
                 THEN AttributeError
                 ELSE [labels |-> upper_rows(h, self.nodes, cl,
                                    IF upper_levels = <<>> THEN <<>>
                                    ELSE upper_points(self.bg_sets, upper_levels), 1),
                       nodes |-> cl, err |-> ""]

\* ------------------------------------------------- keyword dispatch

\* The messages of the ValueErrors the two dispatch methods raise.
IncorrectArguments == "ValueError: incorrect arguments"
NotUnderstood == "ValueError: method not understood"

\* kwargs.get(key): None when the key is missing.
get(kwargs, key) == IF key \in DOMAIN kwargs THEN kwargs[key] ELSE None

\* set(kwargs.keys()).issuperset(required)
has_required(kwargs, required) == required \subseteq DOMAIN kwargs

\* prune_dispatch without its checks of the method and of the keywords.
prune_dispatch_unchecked(st, self, method, kwargs) ==
    merge_by_size(st, self, get(kwargs, "threshold"))

\* LevelSetTree.prune(method, **kwargs) on the tree object `self`.
prune_dispatch(st, self, method, kwargs) ==
    LET ValueError(msg) == [heap |-> st.heap, trees |-> st.trees,
                            result |-> None, err |-> msg]
    IN  IF method = "size_merge"
        THEN IF ~ has_required(kwargs, {"threshold"})
             THEN ValueError(IncorrectArguments)
             ELSE merge_by_size(st, self, get(kwargs, "threshold"))
        ELSE ValueError(NotUnderstood)

\* LevelSetTree.get_cluster_labels(method, **kwargs) on the object `self`.
get_cluster_labels(self, h, method, kwargs) ==
    LET ValueError(msg) == [labels |-> <<>>, nodes |-> <<>>, err |-> msg]
    IN  IF method = "leaf"
        THEN leaf_cluster(h, self.nodes)
        ELSE IF method = "first-k"
        THEN IF ~ has_required(kwargs, {"k"})
             THEN ValueError(IncorrectArguments)
             ELSE first_K_cluster(h, self.nodes, get(kwargs, "k"))
        ELSE IF method = "upper-set"
        THEN IF ~ has_required(kwargs, {"threshold", "scale"})
             THEN ValueError(IncorrectArguments)
             ELSE upper_set_cluster(self, h, get(kwargs, "threshold"),
                                    get(kwargs, "scale"))
        ELSE IF method = "k-level"
        THEN IF ~ has_required(kwargs, {"k"})
             THEN ValueError(IncorrectArguments)
             ELSE first_K_level_cluster(h, self.nodes, get(kwargs, "k"))
        ELSE ValueError(NotUnderstood)

\* ------------------------------------------- calls on the returned tree

\* T.prune(threshold=tau) by the caller.
Prune(tau) ==
    /\ pc = "returned"
    /\ LET r == prune([heap |-> heap, trees |-> trees], T, tau)
       IN  /\ heap' = r.heap
           /\ trees' = r.trees
           /\ call' = [op |-> "prune", arg |-> tau, result |-> r.result,
                       err |-> r.err, out |-> <<>>]
    /\ pc' = "called"
    /\ UNCHANGED <<inputs, T, i, previous_level, bg, current_mass,
                   deactivate_keys, activate_subgraphs, todo, prune_threshold>>

\* T.make_subtree(ix) by the caller.
MakeSubtree(ix) ==
    /\ pc = "returned"
    /\ LET r == make_subtree([heap |-> heap, trees |-> trees], T, ix)
       IN  /\ heap' = r.heap
           /\ trees' = r.trees
           /\ call' = [op |-> "make_subtree", arg |-> ix, result |-> r.result,
                       err |-> r.err, out |-> <<>>]
    /\ pc' = "called"
    /\ UNCHANGED <<inputs, T, i, previous_level, bg, current_mass,
                   deactivate_keys, activate_subgraphs, todo, prune_threshold>>

\* The value the caller writes into a node; no level of the tree has it.
WrittenLevel == MaxDensity + 1

\* The caller assigns `tree.nodes[u].end_level = v`, through the tree
\* make_subtree returned or through the tree it was called on.
WriteNode(via, u) ==
    /\ pc = "called"
    /\ call.op = "make_subtree"
    /\ call.err = ""
    /\ via \in {T, call.result}
    /\ u \in DOMAIN trees[via].nodes
    /\ heap' = [heap EXCEPT ![trees[via].nodes[u]].end_level = WrittenLevel]
    /\ call' = [call EXCEPT !.op = "write", !.out = <<via, u>>]
    /\ pc' = "written"
    /\ UNCHANGED <<inputs, trees, T, i, previous_level, bg, current_mass,
                   deactivate_keys, activate_subgraphs, todo, prune_threshold>>

\* T.get_cluster_labels(method='k-level', k=k) by the caller.
GetClusterLabelsKLevel(k) ==
    /\ pc = "returned"
    /\ LET r == first_K_level_cluster(heap, trees[T].nodes, k)
       IN  call' = [op |-> "k-level", arg |-> k, result |-> None,
                    err |-> r.err,
                    out |-> IF r.err = "" THEN <<r.labels, r.nodes>> ELSE <<>>]
    /\ pc' = "called"
    /\ UNCHANGED <<inputs, heap, trees, T, i, previous_level, bg, current_mass,
                   deactivate_keys, activate_subgraphs, todo, prune_threshold>>

\* T.get_cluster_labels(method=method, **kwargs) by the caller.
GetClusterLabels(method, kwargs) ==
    /\ pc = "returned"
    /\ LET r == get_cluster_labels(self_of(T), heap, method, kwargs)
       IN  call' = [op |-> "get_cluster_labels", arg |-> <<method, kwargs>>,
                    result |-> None, err |-> r.err,
                    out |-> IF r.err = "" THEN <<r.labels, r.nodes>> ELSE <<>>]
    /\ pc' = "called"
    /\ UNCHANGED <<inputs, heap, trees, T, i, previous_level, bg, current_mass,
                   deactivate_keys, activate_subgraphs, todo, prune_threshold>>

\* T.find_K_cut(k) by the caller.
FindKCut(k) ==
    /\ pc = "returned"
    /\ LET r == find_K_cut(heap, trees[T].nodes, k)
       IN  call' = [op |-> "find_K_cut", arg |-> k, result |-> r.cut,
                    err |-> r.err, out |-> <<>>]
    /\ pc' = "called"
    /\ UNCHANGED <<inputs, heap, trees, T, i, previous_level, bg, current_mass,
                   deactivate_keys, activate_subgraphs, todo, prune_threshold>>

\* T.prune(method=method, **kwargs) by the caller.
PruneDispatch(method, kwargs) ==
    /\ pc = "returned"
    /\ LET r == prune_dispatch([heap |-> heap, trees |-> trees], T, method, kwargs)
       IN  /\ heap' = r.heap
           /\ trees' = r.trees
           /\ call' = [op |-> "prune_dispatch", arg |-> <<method, kwargs>>,
                       result |-> r.result, err |-> r.err, out |-> <<>>]
    /\ pc' = "called"
    /\ UNCHANGED <<inputs, T, i, previous_level, bg, current_mass,
                   deactivate_keys, activate_subgraphs, todo, prune_threshold>>

\* construct_tree_from_graph: the level loop, in the order the keys of
\* T.subgraphs are visited (ascending), and the return.
Construct ==
    \/ LevelBegin
    \/ \E k \in todo : k = Min(todo) /\ ProcessNode(k)
    \/ LevelEnd

Next ==
    \/ Construct
    \/ \E pt \in PruneThresholds : Return(pt)
    \/ \E tau \in 0..MaxTau : Prune(tau)
    \/ \E k \in 1..MaxK : GetClusterLabelsKLevel(k)

Spec == Init /\ [][Next]_vars

\* Construction without pruning, then make_subtree and writes by the caller.
NextSubtree ==
    \/ Construct
    \/ Return(None)
    \/ \E ix \in DOMAIN trees[T].nodes : MakeSubtree(ix)
    \/ \E via \in 1..Len(trees) : \E u \in DOMAIN trees[via].nodes : WriteNode(via, u)

SpecSubtree == Init /\ [][NextSubtree]_vars

\* The scales of an upper-set cut: 'alpha' (mass) and 'lambda' (level).
Scales == {"alpha", "lambda"}

\* Construction, pruned or not, then one label extraction or k-cut search
\* with the parameters its method needs.
NextLabels ==
    \/ Construct
    \/ \E pt \in PruneThresholds : Return(pt)
    \/ GetClusterLabels("leaf", <<>>)
    \/ \E k \in 1..MaxK : GetClusterLabels("first-k", [k |-> k])
    \/ \E c \in 0..MaxDensity : \E sc \in Scales :
          GetClusterLabels("upper-set", [threshold |-> c, scale |-> sc])
    \/ GetClusterLabels("k-level", [k |-> MaxK])
    \/ \E k \in 1..MaxK : FindKCut(k)

SpecLabels == Init /\ [][NextLabels]_vars

\* Method names no branch of the two dispatch methods tests for.
UnknownMethods == {"size-merge", "modes"}

\* The method names the docstring of get_cluster_labels lists.
DocumentedMethods == {"leaf", "first_k", "upper_set", "k_level"}

\* The keywords the docstring of get_cluster_labels gives a method.
DocumentedKwargs(method) ==
    IF method = "leaf" THEN {<<>>}
    ELSE IF method = "upper_set"
    THEN {[threshold |-> c, scale |-> sc] : c \in 0..MaxDensity, sc \in Scales}
    ELSE {[k |-> k] : k \in 1..MaxK}

\* Construction without pruning, then one call of a dispatch method: with a
\* method name of the documentation, with an unknown method name, or without
\* a keyword the method needs.
NextDispatch ==
    \/ Construct
    \/ Return(None)
    \/ \E m \in DocumentedMethods : \E kw \in DocumentedKwargs(m) :
          GetClusterLabels(m, kw)
    \/ \E m \in UnknownMethods : \E tau \in 0..MaxTau :
          PruneDispatch(m, [threshold |-> tau])
    \/ PruneDispatch("size_merge", <<>>)
    \/ \E m \in UnknownMethods : GetClusterLabels(m, [k |-> MaxK])
    \/ \E m \in {"first-k", "k-level", "upper-set"} : GetClusterLabels(m, <<>>)
    \/ \E c \in 0..MaxDensity : GetClusterLabels("upper-set", [threshold |-> c])
    \/ \E sc \in Scales : GetClusterLabels("upper-set", [scale |-> sc])

SpecDispatch == Init /\ [][NextDispatch]_vars

\* An adjacency list that names each edge at its smaller endpoint only.
OneSided(E) == [p \in Points |-> {q \in Points : q > p /\ {p, q} \in E}]

\* An input with the grid the level grid generator returns for its density.
WithGrid(a, d) == {[adj |-> a, dens |-> d, lv |-> g] : g \in LevelGrids(d)}

\* A density with one value appended (m = 1) or its last value dropped
\* (m = -1).
Resized(d, m) ==
    [p \in 0..(NPoints + m - 1) |-> IF p < NPoints THEN d[p] ELSE MaxDensity]

\* Inputs the documentation of construct_tree_from_graph does not allow: an
\* adjacency list that is not symmetric, or a density with one value too few
\* or one too many.  (The level grid is no parameter: the function computes
\* it from the density.)
MalformedInputs ==
    LET Two == {d \in Densities : d[0] = 1 /\ d[1] = 2}
    IN  UNION {WithGrid(OneSided(E), d) :
                  E \in (SUBSET BaseEdges) \ {{}}, d \in {e \in Densities : e[0] = 1}}
        \cup UNION {WithGrid(a, Resized(d, m)) :
                  a \in AdjacencyLists, d \in Two, m \in {-1, 1}}

\* The state after the roots are made, for an input that is not checked.
InitMalformed ==
    /\ \E x \in MalformedInputs :
          /\ adjacency_list = x.adj
          /\ density = x.dens
          /\ levels = x.lv
    /\ G = from_dict_of_lists(adjacency_list)
    /\ LET cc0 == connected_components(G, Points)
       IN  /\ heap = [j \in 1..Len(cc0) |->
                        ConnectedComponent(j - 1, None, <<>>, 0, None, 0, None,
                                           cc0[j])]
           /\ trees = << [nodes     |-> [k \in 0..(Len(cc0) - 1) |-> k + 1],
                          subgraphs |-> [k \in 0..(Len(cc0) - 1) |-> cc0[k + 1]]] >>
    /\ T = 1
    /\ i = 0
    /\ previous_level = 0
    /\ bg = {}
    /\ current_mass = 0
    /\ deactivate_keys = <<>>
    /\ activate_subgraphs = <<>>
    /\ todo = {}
    /\ prune_threshold = None
    /\ call = NoCall
    /\ pc = "level"

\* construct_tree_from_graph without pruning, on an input that is not
\* well formed.
NextMalformed ==
    \/ Construct
    \/ Return(None)

SpecMalformed == InitMalformed /\ [][NextMalformed]_vars

\* The level loop with the live nodes of a level visited in any order, as
\* an iteration over a dict is free to do.
ConstructAnyOrder ==
    \/ LevelBegin
    \/ \E k \in todo : ProcessNode(k)
    \/ LevelEnd

NextAnyOrder ==
    \/ ConstructAnyOrder
    \/ Return(None)

\* Densities under which the points 0 and 3 are the two of lowest density,
\* so that separate branches of the graph can be cut at the same level.
DensitiesAnyOrder ==
    LET rank == <<0, 2, 3, 1, 4, 5, 6>>
    IN  {[p \in Points |-> d[IF p + 1 \in DOMAIN rank THEN rank[p + 1] ELSE p]] :
            d \in Densities}

\* The state after the roots are made, for these densities.
InitAnyOrder ==
    /\ adjacency_list \in AdjacencyLists
    /\ density \in DensitiesAnyOrder
    /\ levels \in LevelGrids(density)
    /\ G = from_dict_of_lists(adjacency_list)
    /\ LET cc0 == connected_components(G, Points)
       IN  /\ heap = [j \in 1..Len(cc0) |->
                        ConnectedComponent(j - 1, None, <<>>, 0, None, 0, None,
                                           cc0[j])]
           /\ trees = << [nodes     |-> [k \in 0..(Len(cc0) - 1) |-> k + 1],
                          subgraphs |-> [k \in 0..(Len(cc0) - 1) |-> cc0[k + 1]]] >>
    /\ T = 1
    /\ i = 0
    /\ previous_level = 0
    /\ bg = {}
    /\ current_mass = 0
    /\ deactivate_keys = <<>>
    /\ activate_subgraphs = <<>>
    /\ todo = {}
    /\ prune_threshold = None
    /\ call = NoCall
    /\ pc = "level"

SpecAnyOrder == InitAnyOrder /\ [][NextAnyOrder]_vars

\* ================================================================ properties

Ids(t) == DOMAIN trees[t].nodes
Node(t, x) == heap[trees[t].nodes[x]]

\* The node map of a tree, by value.
TreeValue(t) == [x \in Ids(t) |-> Node(t, x)]

\* The tree the level sweep built is the first tree object.
SweepTree == 1

Roots(t) == {x \in Ids(t) : Node(t, x).parent = None}
Leaves(t) == {x \in Ids(t) : Node(t, x).children = <<>>}

\* C1: in the tree construct_tree_from_graph returns, pruned or not, every
\* non-root node starts at the level and at the mass at which its parent ends.
C1_StartIsParentEnd ==
    pc = "returned" =>
        \A x \in Ids(T) :
            LET n == Node(T, x)
            IN  n.parent # None =>
                    /\ n.parent \in Ids(T)
                    /\ n.start_level = Node(T, n.parent).end_level
                    /\ n.start_mass = Node(T, n.parent).end_mass

\* A pruned tree is returned in which the merge gave a node a new parent.
C1_Witness ==
    /\ pc = "returned"
    /\ prune_threshold # None
    /\ \E x \in Ids(T) :
          /\ Node(T, x).parent # None
          /\ Node(T, x).parent # Node(SweepTree, x).parent

\* Two points are linked when a path of the adjacency list joins them.
RECURSIVE PathClosure(_)
PathClosure(R) ==
    LET S == R \cup {pq \in Points \X Points :
                        \E b \in Points : <<pq[1], b>> \in R /\ <<b, pq[2]>> \in R}
    IN  IF S = R THEN R ELSE PathClosure(S)

Linked ==
    PathClosure({pq \in Points \X Points :
                    \/ pq[1] = pq[2]
                    \/ pq[2] \in adjacency_list[pq[1]]
                    \/ pq[1] \in adjacency_list[pq[2]]})

\* C2: without pruning, the roots start at level 0 and mass 0, their members
\* partition the points, and two points share a root exactly when they are
\* in the same connected component of the neighbor graph.
C2_RootsAreComponents ==
    (pc = "returned" /\ prune_threshold = None) =>
        LET linked == Linked
            shared == {pq \in Points \X Points :
                          \E r \in Roots(T) :
                              {pq[1], pq[2]} \subseteq Node(T, r).members}
        IN  /\ \A r \in Roots(T) :
                  /\ Node(T, r).start_level = 0
                  /\ Node(T, r).start_mass = 0
                  /\ Node(T, r).members # {}
                  /\ Node(T, r).members \subseteq Points
            /\ \A p \in Points :
                  Cardinality({r \in Roots(T) : p \in Node(T, r).members}) = 1
            /\ shared = linked

\* An unpruned tree with several roots, one of which has split.
C2_Witness ==
    /\ pc = "returned"
    /\ prune_threshold = None
    /\ Cardinality(Roots(T)) >= 2
    /\ \E r \in Roots(T) : Len(Node(T, r).children) >= 2

\* C3: in the tree construct_tree_from_graph returns, pruned or not, the
\* members of a child are members of its parent.
C3_ChildWithinParent ==
    pc = "returned" =>
        \A x \in Ids(T), p \in Ids(T) :
            (Node(T, x).parent = p \/ x \in Range(Node(T, p).children)) =>
                Node(T, x).members \subseteq Node(T, p).members

\* A pruned tree that differs from the sweep tree and still has a child that
\* holds fewer points than its parent.
C3_Witness ==
    /\ pc = "returned"
    /\ prune_threshold # None
    /\ TreeValue(T) # TreeValue(SweepTree)
    /\ \E x \in Ids(T), p \in Ids(T) :
          /\ Node(T, x).parent = p
          /\ Node(T, x).members # Node(T, p).members
          /\ Node(T, x).members \subseteq Node(T, p).members

\* C4: with non-negative densities and a grid ending at the largest density,
\* every node of the returned tree has an end level and an end mass.
C4_AllNodesClosed ==
    ( /\ pc = "returned"
      /\ \A p \in Points : density[p] >= 0
      /\ levels[Len(levels)] = Max({density[p] : p \in Points}) ) =>
        \A x \in Ids(T) :
            Node(T, x).end_level # None /\ Node(T, x).end_mass # None

\* C5: a call of prune returns another tree object and leaves the tree it is
\* called on as it was: the same node dict and the same fields in every node.
C5_PruneLeavesInput ==
    [][ (pc = "returned" /\ pc' = "called" /\ call'.op = "prune") =>
            /\ call'.err = ""
            /\ call'.result # T
            /\ trees'[T] = trees[T]
            /\ \A x \in Ids(T) :
                  heap'[trees[T].nodes[x]] = heap[trees[T].nodes[x]] ]_vars

\* A call of prune whose result differs from the tree it was called on.
C5_Witness ==
    /\ pc = "called"
    /\ call.op = "prune"
    /\ call.err = ""
    /\ TreeValue(call.result) # TreeValue(T)

\* C6: pruning the tree returned with prune_threshold = tau once more with
\* the same tau gives the same node map.
C6_PruneIdempotent ==
    ( /\ pc = "called"
      /\ call.op = "prune"
      /\ prune_threshold # None
      /\ call.arg = prune_threshold ) =>
        /\ call.err = ""
        /\ TreeValue(call.result) = TreeValue(T)

\* The first pruning changed the sweep tree and left a node with children.
C6_Witness ==
    /\ pc = "called"
    /\ call.op = "prune"
    /\ prune_threshold # None
    /\ call.arg = prune_threshold
    /\ TreeValue(T) # TreeValue(SweepTree)
    /\ Leaves(T) # Ids(T)

\* C7: pruning a sweep tree with threshold 0 gives the same node map, in
\* construct_tree_from_graph as in a later call.
C7_PruneZeroIsNoOp ==
    /\ (pc = "returned" /\ prune_threshold = 0) =>
           TreeValue(T) = TreeValue(SweepTree)
    /\ (pc = "called" /\ call.op = "prune" /\ call.arg = 0
            /\ prune_threshold = None) =>
           /\ call.err = ""
           /\ TreeValue(call.result) = TreeValue(T)

\* A sweep tree with a split of a split is pruned with threshold 0.
C7_Witness ==
    /\ pc = "called"
    /\ call.op = "prune"
    /\ call.arg = 0
    /\ prune_threshold = None
    /\ \E x \in Ids(T) :
          /\ Node(T, x).parent # None
          /\ Len(Node(T, x).children) >= 2

\* C8: no leaf of a pruned tree has fewer members than the threshold.
C8_NoSmallLeaf ==
    (pc = "returned" /\ prune_threshold # None) =>
        \A x \in Leaves(T) :
            Cardinality(Node(T, x).members) >= prune_threshold

\* The ids make_subtree(ix) is to hold: ix and its descendants in the tree t.
RECURSIVE WithDescendants(_, _)
WithDescendants(t, S) ==
    LET N == S \cup UNION {Range(Node(t, x).children) : x \in S}
    IN  IF N = S THEN S ELSE WithDescendants(t, N)

\* The tree returned by make_subtree(ix) holds ix and its descendants, its
\* root has no parent, and none of its node objects is a node object of the
\* source tree.
SubtreeIsIndependent ==
    /\ call.err = ""
    /\ Ids(call.result) = WithDescendants(T, {call.arg})
    /\ Node(call.result, call.arg).parent = None
    /\ \A x \in Ids(call.result), y \in Ids(T) :
          trees[call.result].nodes[x] # trees[T].nodes[y]

\* C9: make_subtree returns an independent tree, and a write to a node of the
\* returned tree or of the source tree leaves the other tree as it was.
C9_SubtreeIndependent ==
    [][ /\ (pc' = "called" /\ call'.op = "make_subtree") => SubtreeIsIndependent'
        /\ (pc' = "written") =>
              LET other == IF call'.out[1] = T THEN call.result ELSE T
              IN  [x \in DOMAIN trees'[other].nodes |->
                       heap'[trees'[other].nodes[x]]]
                  = [x \in DOMAIN trees[other].nodes |->
                       heap[trees[other].nodes[x]]] ]_vars

\* C10: the k-level labelling returns, without error, the nodes whose
\* interval holds the cut of find_K_cut(k), each with all its members.
C10_KLevelClusters ==
    (pc = "called" /\ call.op = "k-level") =>
        /\ call.err = ""
        /\ LET cut == find_K_cut(heap, trees[T].nodes, call.arg).cut
               cl  == SortedSeq(active_at(heap, trees[T].nodes, cut))
           IN  call.out = <<label_rows(heap, trees[T].nodes, cl, 1), cl>>

\* The background set of the j-th level: the points whose density lies in
\* (levels[j-1], levels[j]], the first interval starting at 0.
BgSet(j) ==
    {p \in DOMAIN density :
        /\ density[p] > (IF j = 1 THEN 0 ELSE levels[j - 1])
        /\ density[p] <= levels[j]}

\* The points removed as background at the levels up to and including t.
Removed(t) == UNION {BgSet(j) : j \in {x \in 1..Len(levels) : levels[x] <= t}}

\* The upper set of a cut: the union of the background sets of the levels
\* strictly above the threshold, on the level scale or on the mass scale
\* (a mass being the number of points removed so far).
UpperSet(threshold, scale) ==
    UNION {BgSet(j) : j \in {x \in 1..Len(levels) :
              IF scale = "alpha"
              THEN Cardinality(Removed(levels[x])) > threshold
              ELSE levels[x] > threshold}}

\* The nodes of T whose interval [start, end) on the scale holds threshold.
Straddling(threshold, scale) ==
    {x \in Ids(T) :
        IF scale = "alpha"
        THEN Node(T, x).start_mass <= threshold /\ Node(T, x).end_mass > threshold
        ELSE Node(T, x).start_level <= threshold /\ Node(T, x).end_level > threshold}

\* C11: an upper-set labelling returns, without error, the nodes whose
\* interval on the scale straddles the threshold, each with its members that
\* lie in the upper set.
C11_UpperSetClusters ==
    (pc = "called" /\ call.op = "get_cluster_labels" /\ call.arg[1] = "upper-set") =>
        /\ call.err = ""
        /\ LET threshold == call.arg[2].threshold
               scale     == call.arg[2].scale
               cl        == call.out[2]
           IN  /\ Range(cl) = Straddling(threshold, scale)
               /\ Len(cl) = Cardinality(Range(cl))
               /\ Range(call.out[1]) =
                      {<<p, j - 1>> : p \in Points, j \in DOMAIN cl} \cap
                      {r \in Points \X (0..Len(cl)) :
                          /\ r[2] + 1 \in DOMAIN cl
                          /\ r[1] \in Node(T, cl[r[2] + 1]).members
                          /\ r[1] \in UpperSet(threshold, scale)}

\* The critical values of the tree T and the number of nodes active at one.
Crits == {Node(T, x).start_level : x \in Ids(T)} \cup {Node(T, x).end_level : x \in Ids(T)}
Active(c) ==
    Cardinality({x \in Ids(T) :
                    Node(T, x).start_level <= c /\ c < Node(T, x).end_level})

Internal == {x \in Ids(T) : Node(T, x).children # <<>>}

\* A first-k call that asks for more active splits than T has nodes with
\* children.
FirstKShort ==
    /\ pc = "called"
    /\ call.op = "get_cluster_labels"
    /\ call.arg[1] = "first-k"
    /\ Cardinality(Internal) < call.arg[2].k - Cardinality(Roots(T))

\* C13, as stated: such a call raises no error and returns fewer than k
\* clusters.
C13_FirstKFewerThanK ==
    FirstKShort => (call.err = "" /\ Len(call.out[2]) < call.arg[2].k)

\* C13, amended: such a call raises no error and returns each leaf of the
\* tree once and nothing else; these are fewer than k when no node has more
\* than two children.
C13_FirstKReturnsLeaves ==
    FirstKShort =>
        /\ call.err = ""
        /\ Range(call.out[2]) = Leaves(T)
        /\ Len(call.out[2]) = Cardinality(Leaves(T))
        /\ (\A x \in Internal : Len(Node(T, x).children) <= 2) =>
               Len(call.out[2]) < call.arg[2].k

\* Such a call on a tree with a split, whose clusters are not the roots.
C13_Witness ==
    /\ FirstKShort
    /\ Internal # {}
    /\ Range(call.out[2]) # Roots(T)

\* A call of a dispatch method with a method name that neither the code nor
\* its documentation knows, or without a keyword its method needs.
BadConfiguration(c) ==
    \/ /\ c.op = "prune_dispatch"
       /\ \/ c.arg[1] \in UnknownMethods
          \/ c.arg[1] = "size_merge" /\ "threshold" \notin DOMAIN c.arg[2]
    \/ /\ c.op = "get_cluster_labels"
       /\ \/ c.arg[1] \in UnknownMethods
          \/ c.arg[1] \in {"first-k", "k-level"} /\ "k" \notin DOMAIN c.arg[2]
          \/ c.arg[1] = "upper-set"
                /\ ~ ({"threshold", "scale"} \subseteq DOMAIN c.arg[2])

\* C14: a call with a bad configuration raises ValueError, returns nothing
\* and leaves every tree and every node as it was.
C14_BadConfigurationFailsFast ==
    [][ (pc = "returned" /\ pc' = "called" /\ BadConfiguration(call')) =>
            /\ call'.err \in {IncorrectArguments, NotUnderstood}
            /\ call'.result = None
            /\ call'.out = <<>>
            /\ heap' = heap
            /\ trees' = trees ]_vars

\* prune was called without a threshold on a tree that has a split.
C14_Witness ==
    /\ pc = "called"
    /\ call.op = "prune_dispatch"
    /\ call.arg[1] = "size_merge"
    /\ call.err = IncorrectArguments
    /\ Internal # {}

\* C15: a call of get_cluster_labels with a method name of its
\* documentation and the keywords documented for it is not refused as a
\* method not understood.
C15_DocumentedMethodsAccepted ==
    ( /\ pc = "called"
      /\ call.op = "get_cluster_labels"
      /\ call.arg[1] \in DocumentedMethods
      /\ call.arg[2] \in DocumentedKwargs(call.arg[1]) ) =>
        call.err # NotUnderstood

\* C16: on a tree without nodes every label extraction returns an empty
\* label list and an empty node list, without error.
C16_EmptyTreeExtraction ==
    (pc = "called" /\ call.op = "get_cluster_labels" /\ Ids(T) = {}) =>
        (call.err = "" /\ call.out = << <<>>, <<>> >>)

\* An adjacency list that is not symmetric, or a density that does not have
\* one value for each point of the adjacency list.
Malformed ==
    \/ \E p \in DOMAIN adjacency_list :
          \E q \in adjacency_list[p] : p \notin adjacency_list[q]
    \/ DOMAIN density # DOMAIN adjacency_list

\* C17: construct_tree_from_graph returns no tree for a malformed input
\* (it raises a validation error before it creates a node).
C17_MalformedRejected ==
    pc = "returned" => ~ Malformed

\* The connected components of the vertex set H in the graph of the
\* adjacency list.
ComponentsOf(H) ==
    LET joined == PathClosure({pq \in H \X H :
                                  \/ pq[1] = pq[2]
                                  \/ pq[2] \in adjacency_list[pq[1]]
                                  \/ pq[1] \in adjacency_list[pq[2]]})
    IN  {{q \in H : <<p, q>> \in joined} : p \in H}

\* C18: when the sweep evaluates a live node k at the threshold t and the
\* vertices H it keeps are not empty and not connected, k is closed at t and
\* gets one new child per connected component of H, with the ids that follow
\* the largest id, parent k, start_level t, no children and the component as
\* members, appended to k.children and registered as a new live subgraph;
\* the members of the children are disjoint and their union is H.  When H
\* is connected and not empty, no node record changes.
C18_SplitStep ==
    [][ (pc = "nodes" /\ todo' # todo) =>
          LET k     == CHOOSE x \in todo : x \notin todo'
              t     == levels[i + 1]
              H     == trees[T].subgraphs[k] \ BgSet(i + 1)
              comps == ComponentsOf(H)
              first == Max(Ids(T)) + 1
              kids  == DOMAIN trees'[T].nodes \ Ids(T)
              Kid(c) == heap'[trees'[T].nodes[c]]
          IN  /\ (H # {} /\ Cardinality(comps) >= 2) =>
                    /\ heap'[trees'[T].nodes[k]] =
                          [Node(T, k) EXCEPT !.end_level = t,
                                             !.end_mass = current_mass,
                                             !.children = @ \o SortedSeq(kids)]
                    /\ kids = first..(first + Cardinality(comps) - 1)
                    /\ \A c \in kids :
                          /\ Kid(c) = ConnectedComponent(c, k, <<>>, t, None,
                                          current_mass, None, Kid(c).members)
                          /\ Kid(c).members \in comps
                          /\ c \in DOMAIN activate_subgraphs'
                          /\ activate_subgraphs'[c] = Kid(c).members
                    /\ \A c, e \in kids :
                          c # e => Kid(c).members \cap Kid(e).members = {}
                    /\ UNION {Kid(c).members : c \in kids} = H
                    /\ \A x \in Ids(T) \ {k} :
                          heap'[trees'[T].nodes[x]] = Node(T, x)
              /\ (H # {} /\ Cardinality(comps) = 1) =>
                    /\ heap' = heap
                    /\ trees'[T].nodes = trees[T].nodes ]_vars

\* In one level of the sweep a node that was evaluated has stayed connected
\* and a later one has split into three children.
C18_Witness ==
    /\ pc = "nodes"
    /\ \E k \in Ids(T) :
          /\ Len(Node(T, k).children) >= 3
          /\ Node(T, k).end_level = levels[i + 1]
          /\ \E j \in DOMAIN trees[T].subgraphs \ todo :
                /\ j # k
                /\ Node(T, j).end_level = None
                /\ trees[T].subgraphs[j] # {}

\* C19: within one level, T.subgraphs keeps its keys until every node that
\* was live at the head of the level has been evaluated; each step of the
\* inner loop evaluates one node that was live at the head of the level and
\* has not been evaluated at this level, never a node created at this level;
\* the deactivations and the new subgraphs are applied after the last one.
C19_UpdatesAfterAllNodes ==
    [][ /\ (pc = "level" /\ pc' = "nodes") =>
              /\ todo' = DOMAIN trees[T].subgraphs
              /\ deactivate_keys' = <<>>
              /\ activate_subgraphs' = <<>>
        /\ (pc = "nodes" /\ pc' = "nodes") =>
              /\ DOMAIN trees'[T].subgraphs = DOMAIN trees[T].subgraphs
              /\ \E k \in todo :
                    /\ todo' = todo \ {k}
                    /\ k \in DOMAIN trees[T].subgraphs
                    /\ k \notin DOMAIN activate_subgraphs
                    /\ Node(T, k).start_level < levels[i + 1] \/ Node(T, k).parent = None
              /\ (DOMAIN trees'[T].nodes \ Ids(T)) \cap todo' = {}
              /\ DOMAIN activate_subgraphs' \cap todo' = {}
        /\ (pc = "nodes" /\ pc' = "level") =>
              /\ todo = {}
              /\ DOMAIN trees'[T].subgraphs =
                    (DOMAIN trees[T].subgraphs \ Range(deactivate_keys))
                        \cup DOMAIN activate_subgraphs ]_vars

\* In the middle of a level: a node has split, its children wait in
\* activate_subgraphs, and another live node is still to be evaluated.
C19_Witness ==
    /\ pc = "nodes"
    /\ activate_subgraphs # <<>>
    /\ todo # {}
    /\ DOMAIN activate_subgraphs \cap DOMAIN trees[T].subgraphs = {}

\* C20: the mass a node of the sweep gets when it is created or closed at a
\* level is the number of points removed as background at the levels up to
\* that one (over the n points, whatever subgraph they were in); so it is
\* the same for all nodes of a level, it does not decrease with the level,
\* and it lies between 0 and n.
C20_MassIsCumulative ==
    \A x \in Ids(SweepTree) :
        LET v == Node(SweepTree, x)
        IN  /\ v.start_mass = Cardinality(Removed(v.start_level))
            /\ v.start_mass \in 0..NPoints
            /\ v.end_level # None =>
                  /\ v.end_mass = Cardinality(Removed(v.end_level))
                  /\ v.end_mass \in v.start_mass..NPoints
            /\ \A y \in Ids(SweepTree) :
                  LET w == Node(SweepTree, y)
                  IN  /\ v.start_level <= w.start_level =>
                            v.start_mass <= w.start_mass
                      /\ (v.end_level # None /\ v.end_level = w.start_level) =>
                            v.end_mass = w.start_mass
                      /\ (v.end_level # None /\ w.end_level # None
                             /\ v.end_level <= w.end_level) =>
                            v.end_mass <= w.end_mass

\* A returned tree with two roots, one closed at a level where only a part
\* of the points is removed and where a node of the other root is created.
C20_Witness ==
    /\ pc = "returned"
    /\ \E x, y \in Roots(SweepTree) :
          /\ x # y
          /\ Node(SweepTree, x).end_mass \in 1..(NPoints - 1)
          /\ \E z \in Ids(SweepTree) :
                /\ Node(SweepTree, z).parent = y
                /\ Node(SweepTree, z).start_level = Node(SweepTree, x).end_level
                /\ Node(SweepTree, z).start_mass = Node(SweepTree, x).end_mass

\* The level of index j (0: before the first level) and the points that
\* are left once the background sets of the levels 1..j are removed.
Lev(j) == IF j = 0 THEN 0 ELSE levels[j]
LiveAt(j) == Points \ UNION {BgSet(x) : x \in 1..j}

\* The points of H that a path of the adjacency list inside H joins to a
\* point of S.
RECURSIVE Joined(_, _)
Joined(S, H) ==
    LET N == {q \in H \ S : \E p \in S : q \in adjacency_list[p] \/ p \in adjacency_list[q]}
    IN  IF N = {} THEN S ELSE Joined(S \cup N, H)

\* The connected pieces of the vertex set H.
RECURSIVE PiecesOf(_)
PiecesOf(H) ==
    IF H = {} THEN {}
    ELSE LET c == Joined({CHOOSE p \in H : TRUE}, H)
         IN  {c} \cup PiecesOf(H \ c)

\* The index of the level at which the vertex set c, whole at the level of
\* index j, is emptied or cut into pieces (0: at no level).
EndIx(c, j) ==
    LET ends == {e \in (j + 1)..Len(levels) :
                    \/ c \cap LiveAt(e) = {}
                    \/ Cardinality(PiecesOf(c \cap LiveAt(e))) >= 2}
    IN  IF ends = {} THEN 0 ELSE Min(ends)

\* A branch: its members, the index of the level it starts at, the index of
\* the level it ends at and the members of its parent ({}: none).
Branch(c, j, above) == [members |-> c, start |-> j, end |-> EndIx(c, j), parent |-> above]

\* The branches of the level set tree of the input up to the level of index
\* j: the components of the graph, then the pieces of every branch that is
\* cut, at the level where it is cut.
RECURSIVE Branches(_)
Branches(j) ==
    IF j = 0 THEN {Branch(c, 0, {}) : c \in PiecesOf(Points)}
    ELSE LET before == Branches(j - 1)
         IN  before \cup
             UNION {{Branch(c, j, b.members) : c \in PiecesOf(b.members \cap LiveAt(j))} :
                      b \in {x \in before : x.end = j}}

\* The node records of the level set tree of the input, without ids: the
\* parent is given by its members, a mass by its numerator.
ExpectedRecords ==
    LET MassAt(j) == NPoints - Cardinality(LiveAt(j))
    IN  {[members     |-> b.members,
          start_level |-> Lev(b.start),
          start_mass  |-> MassAt(b.start),
          end_level   |-> IF b.end = 0 THEN None ELSE Lev(b.end),
          end_mass    |-> IF b.end = 0 THEN None ELSE MassAt(b.end),
          parent      |-> b.parent] : b \in Branches(Len(levels))}

\* The node records of the tree t without their ids.
Records(t) ==
    {[members     |-> Node(t, x).members,
      start_level |-> Node(t, x).start_level,
      start_mass  |-> Node(t, x).start_mass,
      end_level   |-> Node(t, x).end_level,
      end_mass    |-> Node(t, x).end_mass,
      parent      |-> IF Node(t, x).parent = None THEN {}
                      ELSE Node(t, Node(t, x).parent).members] : x \in Ids(t)}

\* C21: in whatever order the live nodes of each level are visited, the
\* tree that is returned has the same node records up to the ids: those of
\* the level set tree of the input, each once.
C21_OrderIndependent ==
    pc = "returned" =>
        /\ Records(T) = ExpectedRecords
        /\ Cardinality(Ids(T)) = Cardinality(ExpectedRecords)

\* A returned tree in which a node got its children before a node with a
\* smaller id got its own at the same level: the nodes of that level were not
\* visited in ascending order.
C21_Witness ==
    /\ pc = "returned"
    /\ \E x, y \in Ids(T) :
          /\ x < y
          /\ Node(T, x).end_level = Node(T, y).end_level
          /\ Node(T, x).children # <<>>
          /\ Node(T, y).children # <<>>
          /\ Node(T, y).children[1] < Node(T, x).children[1]

\* The ids of the tree t that lie below the node x.
RECURSIVE Below(_, _)
Below(t, x) ==
    LET kids == Range(Node(t, x).children) \cap Ids(t)
    IN  kids \cup UNION {Below(t, c) : c \in kids}

\* The order in which _merge_by_size(tau) on the tree t visits the nodes that
\* have children, once the small roots are removed.
VisitOrder(t, tau) ==
    LET rr == remove_roots(heap, trees[t].nodes,
                           SortedSeq(small_roots(heap, trees[t].nodes, tau)))
    IN  parents_order(heap, rr.nodes)

\* C22: on the tree of the sweep and on a tree that was pruned before, for
\* every threshold, the pruning pass visits a node with children after every
\* node with children below it, and finds every node it looks up (it ends
\* without a KeyError).
C22_DescendantsFirst ==
    pc = "returned" =>
        \A t \in DOMAIN trees : \A tau \in 0..MaxTau :
            LET order == VisitOrder(t, tau)
            IN  /\ \A a, b \in DOMAIN order :
                      order[a] \in Below(t, order[b]) => a < b
                /\ merge_by_size([heap |-> heap, trees |-> trees], t, tau).err = ""

\* A pruned tree, smaller than the tree of the sweep, in which a node with
\* children lies below another one: a further pruning pass has an order to
\* keep.
C22_Witness ==
    /\ pc = "returned"
    /\ prune_threshold # None
    /\ Ids(T) # Ids(SweepTree)
    /\ \E x, y \in Ids(T) :
          /\ y \in Below(T, x)
          /\ Node(T, x).children # <<>>
          /\ Node(T, y).children # <<>>
          /\ Len(VisitOrder(T, prune_threshold)) >= 2

\* The tree t is referentially closed: the children of a node are nodes of
\* the tree that name it as their parent, and the parent of a node is a node
\* of the tree that lists it among its children.
Closed(t) ==
    \A x \in Ids(t) :
        /\ \A c \in Range(Node(t, x).children) :
              c \in Ids(t) /\ Node(t, c).parent = x
        /\ Node(t, x).parent # None =>
              /\ Node(t, x).parent \in Ids(t)
              /\ x \in Range(Node(t, Node(t, x).parent).children)

\* C23: the tree prune returns for the tree of the sweep is referentially
\* closed, for every input and every threshold.
C23_PrunedTreeClosed ==
    (pc = "returned" /\ prune_threshold # None) => Closed(T)

\* A pruned tree that has lost a root with the nodes below it, and in which
\* a root that is kept has lost its children.
C23_Witness ==
    /\ pc = "returned"
    /\ prune_threshold # None
    /\ \E r \in Roots(SweepTree) :
          r \notin Ids(T) /\ Node(SweepTree, r).children # <<>>
    /\ \E x \in Ids(T) :
          /\ Node(T, x).children = <<>>
          /\ Node(SweepTree, x).children # <<>>

\* C24: when a level of the sweep is done (and before the first one), the
\* keys of T.subgraphs are the nodes whose end_level is not set; the live
\* vertex sets are not empty, lie within the members of their nodes, are
\* disjoint from one another, and together are the points that no level has
\* removed so far.
C24_LiveSubgraphs ==
    pc = "level" =>
        LET live == trees[T].subgraphs
        IN  /\ DOMAIN live = {x \in Ids(T) : Node(T, x).end_level = None}
            /\ \A x \in DOMAIN live :
                  /\ live[x] # {}
                  /\ live[x] \subseteq Node(T, x).members
            /\ \A x, y \in DOMAIN live : x # y => live[x] \cap live[y] = {}
            /\ UNION {live[x] : x \in DOMAIN live} = LiveAt(i)

\* A level is done at which one node was cut, one vanished, and one lost
\* points and stays live.
C24_Witness ==
    /\ pc = "level"
    /\ i >= 1
    /\ \E x, y, z \in Ids(T) :
          /\ Node(T, x).end_level = levels[i] /\ Node(T, x).children # <<>>
          /\ Node(T, y).end_level = levels[i] /\ Node(T, y).children = <<>>
          /\ z \in DOMAIN trees[T].subgraphs
          /\ trees[T].subgraphs[z] # Node(T, z).members

====
